---- MODULE Spec2Model ----
(***************************************************************************)
(* mlog: a circular log kept in a memory region that persists across       *)
(* resets (src/src/lib.rs).  The model follows Log::init and its nested    *)
(* reformat one header write at a time, with a reset possible between any  *)
(* two steps, and the three reader entry points of impl Log.               *)
(*                                                                         *)
(* The header lives in memory that survives a reset, so hdr keeps its      *)
(* value across Reset.  The region's first content is whatever the memory  *)
(* held before the first init: Init draws it from bounded sets.            *)
(* backing_storage is documented write-through (lib.rs:129-131), so each   *)
(* assignment reaches the region in program order.                         *)
(***************************************************************************)
EXTENDS Integers, Sequences, FiniteSets

\* ---------------------------------------------------------------- constants

\* const LOG_MAGIC_V1: u32 = 0x12aab766
LOG_MAGIC_V1 == 313177958

\* mem::size_of::<LogHeader>() for the repr(C) struct {u32, u32, u64, u16, u16}
\* where u64 is 8-aligned: 4 + 4 + 8 + 2 + 2 = 20, padded to 24.
HeaderSize == 24

\* u16::MAX, the width of head and head_check
U16Max == 65535

\* ------------------------------------------------------------------- bounds

\* data regions of 0 .. MaxDataLen bytes follow the header
MaxDataLen == 1
\* head / index values 0 .. MaxHead
MaxHead == 1
\* epochs whose upper and lower halves sum to at most MaxEpoch
MaxEpoch == 1
\* consecutive interrupted reformats that are counted
MaxInterrupts == 2

\* ------------------------------------------------------------- value sets

\* bitwise complement of a u16 (`!head`)
Not16(h) == U16Max - h

\* lengths of backing_storage that fit a header
FitLens == { HeaderSize + k : k \in 0..MaxDataLen }
\* lengths a caller may pass: fitting, or too short for a header
StoreLens == FitLens \cup { HeaderSize - 1 }
\* a u64 epoch, written as its upper and lower 32 bits: hi * 2^32 + lo
Epochs == { e \in [ hi : 0..MaxEpoch, lo : 0..MaxEpoch ] : e.hi + e.lo <= MaxEpoch }
ZeroEpoch == [ hi |-> 0, lo |-> 0 ]
Heads == 0..MaxHead
Magics == { 0, LOG_MAGIC_V1 }

\* struct LogHeader
LogHeader ==
    [ magic : Magics,
      length : FitLens \cup {0},
      epoch : Epochs,
      head : Heads,
      head_check : {0} \cup { Not16(h) : h \in Heads } ]

\* the bytes that follow the header in memory (`ld`, for the longest region),
\* each holding 0xFF before any init
DataFills == { [ i \in 1..MaxDataLen |-> 255 ] }

\* struct Cursor
Cursor == [ epoch : Epochs, index : Heads ]

\* LogHeader has no field `tail`: the cell reformat assigns has no value before
Unset == -1

NoCursor == [ epoch |-> ZeroEpoch, index |-> 0 ]

\* the header before any call has been made (ghost value only)
NoHeader == [ magic |-> 0, length |-> 0, epoch |-> ZeroEpoch, head |-> 0, head_check |-> 0 ]

VARIABLES
    hdr,              \* *lh_m: the LogHeader at offset 0 of the region
    tail,             \* the cell `lh_m.tail` names in reformat; Unset until assigned
    data,             \* ld: the bytes of the region after the header
    pc,               \* position of the running init; "boot" when none runs
    ret,              \* where the running reformat returns to
    store_len,        \* init's store_len
    fits_u32,         \* whether backing_storage.len() is at most u32::MAX
    potential_epoch,  \* init's potential_epoch
    aligned,          \* whether backing_storage is aligned for LogHeader
    panicAt,          \* which panic ended the call, "" when none
    hdr0,             \* history: the header when the running init was entered
    data0,            \* history: the data bytes when the running init was entered
    trace,            \* history: what the running init did to the region, in order
    interrupted,      \* history: consecutive inits reset inside reformat before the magic write
    intLen,           \* history: the region length those interrupted inits were given
    apiCall,          \* the reader entry point called on the Log handle, "" when none
    apiArg,           \* its Cursor argument
    apiResult         \* its outcome

vars == << hdr, tail, data, pc, ret, store_len, fits_u32, potential_epoch, aligned, panicAt, hdr0,
           data0, trace, interrupted, intLen, apiCall, apiArg, apiResult >>

memVars == << hdr, tail, data >>
callVars == << store_len, fits_u32, potential_epoch, aligned, hdr0, data0 >>
histVars == << interrupted, intLen >>
apiVars == << apiCall, apiArg, apiResult >>

\* -------------------------------------------------------------------- init

Init ==
    /\ hdr \in LogHeader
    /\ tail = Unset
    /\ data \in DataFills
    /\ pc = "boot"
    /\ ret = ""
    /\ store_len = 0
    /\ fits_u32 = TRUE
    /\ potential_epoch = ZeroEpoch
    /\ aligned = TRUE
    /\ panicAt = ""
    /\ hdr0 = NoHeader
    /\ data0 = data
    /\ trace = << >>
    /\ interrupted = 0
    /\ intLen = 0
    /\ apiCall = ""
    /\ apiArg = NoCursor
    /\ apiResult = ""

\* ------------------------------------------------------------ Log::init

\* the magic test with its comparison inverted
MagicBad_inverted(h) == h.magic = LOG_MAGIC_V1

\* `lh_m.magic != LOG_MAGIC_V1`
MagicBad(h) == h.magic /= LOG_MAGIC_V1

\* the length test written as "the region shrank"
LengthBad_onlyShrink(h, len) == h.length > len

\* `lh_m.length != store_len`
LengthBad(h, len) == h.length /= len

Min(a, b) == IF a < b THEN a ELSE b

\* the steps of reformat that precede the write of magic; at pc = "rf_x" the
\* statement x is the next one to run
BeforeMagicWrite == { "rf_epoch", "rf_length", "rf_head", "rf_tail", "rf_flush", "rf_magic" }

Panic(where) ==
    /\ pc' = "panicked"
    /\ panicAt' = where

\* pub fn init(backing_storage: &'a mut [u8], potential_epoch: u64) is entered
\* (a length above u32::MAX is given by fits = FALSE; len is then its low 32 bits)
InitCall(len, fits, pe, al) ==
    /\ pc = "boot"
    /\ pc' = "try_into"
    /\ store_len' = len
    /\ fits_u32' = fits
    /\ potential_epoch' = pe
    /\ aligned' = al
    /\ hdr0' = hdr
    /\ data0' = data
    /\ trace' = << >>
    /\ panicAt' = ""
    /\ ret' = ""
    /\ UNCHANGED << memVars, histVars, apiVars >>

\* let store_len: u32 = backing_storage.len().try_into().unwrap();
TryInto ==
    /\ pc = "try_into"
    /\ IF ~fits_u32
         THEN Panic("try_into")
         ELSE pc' = "split_at_mut" /\ UNCHANGED panicAt
    /\ UNCHANGED << memVars, callVars, ret, trace, histVars, apiVars >>

\* the split done without its bounds check
SplitAtMut_unchecked ==
    /\ pc = "split_at_mut"
    /\ pc' = "align_to_mut"
    /\ UNCHANGED << memVars, callVars, ret, trace, panicAt, histVars, apiVars >>

\* backing_storage.split_at_mut(mem::size_of::<LogHeader>()) panics when mid > len
SplitAtMut ==
    /\ pc = "split_at_mut"
    /\ IF store_len < HeaderSize
         THEN Panic("split_at_mut")
         ELSE pc' = "align_to_mut" /\ UNCHANGED panicAt
    /\ UNCHANGED << memVars, callVars, ret, trace, histVars, apiVars >>

\* lh_b.align_to_mut::<LogHeader>() and the three assert_eq!: a misaligned
\* header-sized slice gives an empty middle part
AlignToMut ==
    /\ pc = "align_to_mut"
    /\ IF ~aligned
         THEN Panic("assert_eq")
         ELSE pc' = "check_magic" /\ UNCHANGED panicAt
    /\ UNCHANGED << memVars, callVars, ret, trace, histVars, apiVars >>

\* if lh_m.magic != LOG_MAGIC_V1 { reformat(lh_m, potential_epoch, store_len); }
CheckMagic ==
    /\ pc = "check_magic"
    /\ IF MagicBad(hdr)
         THEN /\ pc' = "rf_epoch"
              /\ ret' = "check_length"
              /\ trace' = Append(trace, "reformat")
         ELSE /\ pc' = "check_length"
              /\ UNCHANGED << ret, trace >>
    /\ UNCHANGED << memVars, callVars, panicAt, histVars, apiVars >>

\* if lh_m.length != store_len { reformat(lh_m, potential_epoch, store_len); }
CheckLength ==
    /\ pc = "check_length"
    /\ IF LengthBad(hdr, store_len)
         THEN /\ pc' = "rf_epoch"
              /\ ret' = "todo"
              /\ trace' = Append(trace, "reformat")
         ELSE /\ pc' = "todo"
              /\ UNCHANGED << ret, trace >>
    /\ UNCHANGED << memVars, callVars, panicAt, histVars, apiVars >>

\* ---------------------------------------------------------------- reformat

\* lh_m.epoch = potential_epoch;
WriteEpoch ==
    /\ pc = "rf_epoch"
    /\ hdr' = [hdr EXCEPT !.epoch = potential_epoch]
    /\ trace' = Append(trace, "epoch")
    /\ pc' = "rf_length"
    /\ UNCHANGED << tail, data, callVars, ret, panicAt, histVars, apiVars >>

\* reformat with the assignment of length left out
WriteLength_skipped ==
    /\ pc = "rf_length"
    /\ trace' = Append(trace, "length")
    /\ pc' = "rf_head"
    /\ UNCHANGED << memVars, callVars, ret, panicAt, histVars, apiVars >>

\* lh_m.length = store_len;
WriteLength ==
    /\ pc = "rf_length"
    /\ hdr' = [hdr EXCEPT !.length = store_len]
    /\ trace' = Append(trace, "length")
    /\ pc' = "rf_head"
    /\ UNCHANGED << tail, data, callVars, ret, panicAt, histVars, apiVars >>

\* lh_m.head = 0;
WriteHead ==
    /\ pc = "rf_head"
    /\ hdr' = [hdr EXCEPT !.head = 0]
    /\ trace' = Append(trace, "head")
    /\ pc' = "rf_tail"
    /\ UNCHANGED << tail, data, callVars, ret, panicAt, histVars, apiVars >>

\* the write of `tail` landing in the first byte after the header
WriteTail_intoData ==
    /\ pc = "rf_tail"
    /\ data' = [ i \in DOMAIN data |-> IF i = 1 THEN 0 ELSE data[i] ]
    /\ trace' = Append(trace, "tail")
    /\ pc' = "rf_flush"
    /\ UNCHANGED << hdr, tail, callVars, ret, panicAt, histVars, apiVars >>

\* lh_m.tail = 0;   (the statement names `tail`; head_check is not assigned)
WriteTail ==
    /\ pc = "rf_tail"
    /\ tail' = 0
    /\ trace' = Append(trace, "tail")
    /\ pc' = "rf_flush"
    /\ UNCHANGED << hdr, data, callVars, ret, panicAt, histVars, apiVars >>

\* cache_flush();   fn cache_flush() {}
CacheFlush ==
    /\ pc = "rf_flush"
    /\ trace' = Append(trace, "flush")
    /\ pc' = "rf_magic"
    /\ UNCHANGED << memVars, callVars, ret, panicAt, histVars, apiVars >>

\* lh_m.magic = LOG_MAGIC_V1;   and reformat returns
WriteMagic ==
    /\ pc = "rf_magic"
    /\ hdr' = [hdr EXCEPT !.magic = LOG_MAGIC_V1]
    /\ trace' = Append(trace, "magic")
    /\ pc' = ret
    /\ ret' = ""
    /\ UNCHANGED << tail, data, callVars, panicAt, histVars, apiVars >>

\* todo!()   the last statement of init
Todo ==
    /\ pc = "todo"
    /\ Panic("todo")
    /\ UNCHANGED << memVars, callVars, ret, trace, histVars, apiVars >>

\* A reset (soft reset, watchdog, restart after a panic) at any point of a
\* call: the region keeps its content, everything else is lost.
Reset ==
    /\ pc \notin { "boot", "handle" }
    /\ pc' = "boot"
    /\ ret' = ""
    /\ store_len' = 0
    /\ fits_u32' = TRUE
    /\ potential_epoch' = ZeroEpoch
    /\ aligned' = TRUE
    /\ panicAt' = ""
    /\ hdr0' = NoHeader
    /\ data0' = data
    /\ trace' = << >>
    /\ IF pc \in BeforeMagicWrite
         THEN /\ interrupted' = IF interrupted = 0 \/ intLen = store_len
                                  THEN Min(interrupted + 1, MaxInterrupts)
                                  ELSE 1
              /\ intLen' = store_len
         ELSE /\ interrupted' = 0
              /\ intLen' = 0
    /\ UNCHANGED << memVars, apiVars >>

Next ==
    \/ \E len \in StoreLens, fits \in BOOLEAN, pe \in Epochs, al \in BOOLEAN :
          InitCall(len, fits, pe, al)
    \/ TryInto
    \/ SplitAtMut
    \/ AlignToMut
    \/ CheckMagic
    \/ CheckLength
    \/ WriteEpoch
    \/ WriteLength
    \/ WriteHead
    \/ WriteTail
    \/ CacheFlush
    \/ WriteMagic
    \/ Todo
    \/ Reset

Spec == Init /\ [][Next]_vars

\* ------------------------------------------------- the reader entry points

\* A Log handle `self` over a region whose header passes init's two checks.
\* (init itself ends in todo!(), so the handle is an input here.)
InitApi ==
    /\ hdr \in { h \in LogHeader : ~MagicBad(h) /\ h.length \in FitLens }
    /\ tail \in { Unset, 0 }
    /\ data \in DataFills
    /\ pc = "handle"
    /\ ret = ""
    /\ store_len = hdr.length
    /\ fits_u32 = TRUE
    /\ potential_epoch = ZeroEpoch
    /\ aligned = TRUE
    /\ panicAt = ""
    /\ hdr0 = NoHeader
    /\ data0 = data
    /\ trace = << >>
    /\ interrupted = 0
    /\ intLen = 0
    /\ apiCall = ""
    /\ apiArg = NoCursor
    /\ apiResult = ""

\* pub fn cursor_from_start(&self) -> Cursor { todo!() }
CursorFromStart ==
    /\ pc = "handle"
    /\ apiCall' = "cursor_from_start"
    /\ apiArg' = NoCursor
    /\ apiResult' = "panic"
    /\ Panic("todo")
    /\ UNCHANGED << memVars, callVars, ret, trace, histVars >>

\* pub fn cursor_from_end(&self) -> Cursor { todo!() }
CursorFromEnd ==
    /\ pc = "handle"
    /\ apiCall' = "cursor_from_end"
    /\ apiArg' = NoCursor
    /\ apiResult' = "panic"
    /\ Panic("todo")
    /\ UNCHANGED << memVars, callVars, ret, trace, histVars >>

\* pub fn read_at(&self, _cursor: &Cursor) -> Option<(Entry<'a>, Cursor)> { todo!(); }
ReadAt(cursor) ==
    /\ pc = "handle"
    /\ apiCall' = "read_at"
    /\ apiArg' = cursor
    /\ apiResult' = "panic"
    /\ Panic("todo")
    /\ UNCHANGED << memVars, callVars, ret, trace, histVars >>

NextApi ==
    \/ CursorFromStart
    \/ CursorFromEnd
    \/ \E cursor \in Cursor : ReadAt(cursor)

SpecApi == InitApi /\ [][NextApi]_vars

\* ------------------------------------------------------------- properties

Range(seq) == { seq[i] : i \in 1..Len(seq) }

\* the header reads as valid for a region of `len` bytes
AppearsValid(h, len) == h.magic = LOG_MAGIC_V1 /\ h.length = len

\* epoch, head and head_check are those of a format with epoch `pe`
FreshlyFormatted(h, pe) == h.epoch = pe /\ h.head = 0 /\ h.head_check = Not16(0)

\* the running init has passed both checks and any reformat, without a reset
InitFinished == pc = "todo" \/ (pc = "panicked" /\ panicAt = "todo" /\ apiCall = "")

\* what the running init did since it last entered reformat
LastReformat ==
    LET starts == { i \in 1..Len(trace) : trace[i] = "reformat" }
        last == CHOOSE i \in starts : \A j \in starts : j <= i
    IN  IF starts = {} THEN << >> ELSE SubSeq(trace, last + 1, Len(trace))

Before(seq, a, b) ==
    \E i, j \in 1..Len(seq) : i < j /\ seq[i] = a /\ seq[j] = b

EpochLt(a, b) == a.hi < b.hi \/ (a.hi = b.hi /\ a.lo < b.lo)

\* C1: at no point of a reformat before the write of magic (each a point where
\* a reset can leave the region as it is) does the header read as valid for
\* the region while epoch, head or head_check is not the freshly formatted value.
C1_ResetSafeReformat ==
    pc \in BeforeMagicWrite =>
        ~(AppearsValid(hdr, store_len) /\ ~FreshlyFormatted(hdr, potential_epoch))

\* C2: in every reformat, epoch, length, head and head_check are written
\* before the flush barrier, and magic is written after it and is the last write.
C2_WriteOrdering ==
    LET r == LastReformat IN
    /\ "flush" \in Range(r) =>
           \A f \in { "epoch", "length", "head", "head_check" } : Before(r, f, "flush")
    /\ "magic" \in Range(r) =>
           /\ Before(r, "flush", "magic")
           /\ r[Len(r)] = "magic"

\* C3: after an uninterrupted init on a region whose magic was not the
\* sentinel, the header is {sentinel, region length, potential_epoch, 0, 0xFFFF}.
C3_ReformatResult ==
    (InitFinished /\ hdr0.magic /= LOG_MAGIC_V1) =>
        hdr = [ magic |-> LOG_MAGIC_V1, length |-> store_len, epoch |-> potential_epoch,
                head |-> 0, head_check |-> Not16(0) ]

C5_ValidHeaderPreserved ==
    (pc \notin { "boot", "handle" } /\ apiCall = "" /\ AppearsValid(hdr0, store_len)) =>
        /\ hdr = hdr0
        /\ trace = << >>

C5_Witness ==
    /\ InitFinished
    /\ AppearsValid(hdr0, store_len)
    /\ hdr0.epoch /= potential_epoch
    /\ hdr0.head /= 0
    /\ hdr = hdr0

\* C6: init on a header with valid magic and matching length but
\* head_check /= !head reformats, and leaves head_check = !head.
C6_TornHeadDetected ==
    (InitFinished /\ AppearsValid(hdr0, store_len) /\ hdr0.head_check /= Not16(hdr0.head)) =>
        /\ "reformat" \in Range(trace)
        /\ hdr.head_check = Not16(hdr.head)

\* C7: an init whose region is long enough and aligned does not panic.
C7_InitReturns ==
    (pc = "panicked" /\ apiCall = "") =>
        ~(fits_u32 /\ store_len >= HeaderSize /\ aligned)

\* C8: the first uninterrupted init on a region after inits on it that were
\* reset inside reformat before the magic write reformats again and leaves a
\* consistent header.
C8_ConvergesAfterInterrupts ==
    (InitFinished /\ interrupted > 0 /\ store_len = intLen) =>
        /\ "reformat" \in Range(trace)
        /\ AppearsValid(hdr, store_len)
        /\ hdr.head = 0
        /\ hdr.head_check = Not16(hdr.head)
        /\ hdr.epoch = potential_epoch

\* C9: on a log to which N entries were appended, cursor_from_start gives a
\* cursor, N read_at calls give the entries and the next gives nothing.  The
\* source has no append, so N = 0: cursor_from_start returns a cursor, and
\* read_at at the start of the empty log returns nothing.
C9_RoundTrip ==
    /\ apiCall = "cursor_from_start" => apiResult = "cursor"
    /\ (apiCall = "read_at" /\ hdr.head = 0 /\ apiArg = [ epoch |-> hdr.epoch, index |-> 0 ]) =>
           apiResult = "none"

\* C10: read_at with a cursor of an epoch older than the log's reports a
\* stale cursor, which is neither an entry nor "nothing".
C10_StaleCursor ==
    (apiCall = "read_at" /\ EpochLt(apiArg.epoch, hdr.epoch)) => apiResult = "stale"

\* C11: cursor_from_end gives a cursor; read_at with that cursor (the log's
\* epoch, index = head) and no append in between gives nothing.  (The second
\* half, one append later, has no append in the source to run.)
C11_FromEndWaits ==
    /\ apiCall = "cursor_from_end" => apiResult = "cursor"
    /\ (apiCall = "read_at" /\ apiArg = [ epoch |-> hdr.epoch, index |-> hdr.head ]) =>
           apiResult = "none"

\* C12: after init and any number of appends (none exist in the source, so
\* after init), head_check is the 16-bit complement of head.
C12_HeadCheckInvariant ==
    InitFinished => hdr.head_check = Not16(hdr.head)

\* how often x occurs in seq
Count(seq, x) == Cardinality({ i \in 1..Len(seq) : seq[i] = x })

\* an init call is running or has ended in a panic
InInit == pc \notin { "boot", "handle" } /\ apiCall = ""

\* C14: an init on a region shorter than the header, or misaligned, never
\* gets to the header checks: it can only end in a panic of the length
\* conversion, the split or the alignment asserts, with the header and the
\* data bytes as they were and nothing written.
C14_ConfigErrorBeforeWrite ==
    (InInit /\ (store_len < HeaderSize \/ ~aligned)) =>
        /\ pc \in { "try_into", "split_at_mut", "align_to_mut", "panicked" }
        /\ pc = "panicked" => panicAt \in { "try_into", "split_at_mut", "assert_eq" }
        /\ hdr = hdr0
        /\ data = data0
        /\ trace = << >>

C14_Witness ==
    /\ pc = "panicked"
    /\ panicAt = "split_at_mut"
    /\ store_len < HeaderSize
    /\ hdr0.magic /= LOG_MAGIC_V1
    /\ hdr = hdr0

\* C17: after a reformat the low 32 bits of the header's epoch are zero,
\* whatever potential_epoch was.
C17_EpochLowBitsZero ==
    (InitFinished /\ "reformat" \in Range(trace)) => hdr.epoch.lo = 0

\* C18: one init call enters reformat, calls the flush barrier and writes
\* magic at most once each; when the magic is bad and the stored length
\* differs as well, exactly once.
C18_ReformatAtMostOnce ==
    InInit =>
        /\ Count(trace, "reformat") <= 1
        /\ Count(trace, "flush") <= 1
        /\ Count(trace, "magic") <= 1
        /\ (InitFinished /\ hdr0.magic /= LOG_MAGIC_V1 /\ hdr0.length /= store_len) =>
               /\ Count(trace, "flush") = 1
               /\ Count(trace, "magic") = 1

C18_Witness ==
    /\ InitFinished
    /\ hdr0.magic /= LOG_MAGIC_V1
    /\ hdr0.length \in FitLens
    /\ hdr0.length /= store_len
    /\ Count(trace, "magic") = 1

\* C19: once init has accepted or formatted the header of a region that has
\* a data part, head is an offset inside the data part.
C19_HeadInDataRegion ==
    (InitFinished /\ store_len > HeaderSize) =>
        (0 <= hdr.head /\ hdr.head < store_len - HeaderSize)

\* C20: no step of init, reformatting or not, changes a byte after the header.
C20_DataUntouched ==
    InInit => data = data0

C20_Witness ==
    /\ InitFinished
    /\ "magic" \in Range(trace)
    /\ store_len > HeaderSize
    /\ data = data0

====
